---- MODULE Spec2Model ----
(***************************************************************************)
(* QA-Monster analysis pipeline: bounded dependency discovery, the file    *)
(* cache, the cost-bounded completion client, the quality gate and the     *)
(* orchestrator's process() call.                                          *)
(*                                                                         *)
(* Each component has its own specification (SpecTraversal, SpecLLM, ...). *)
(* A specification moves only the variables of its component and leaves   *)
(* the others at their constructed values.                                 *)
(***************************************************************************)
EXTENDS Integers, Sequences, FiniteSets, TLC

\* ------------------------------------------------------------------ bounds
MaxPaths == 3
MaxEdges == 4
MaxDepthArg == 3
MaxCallers == 2
MaxRemoteCalls == 3
MaxCachePaths == 1
MaxContents == 2
MaxParsedObjs == 1
MaxParses == 2
MaxClock == 1
MaxAddedRules == 2

\* ------------------------------------------------------- shared constants
None == "none"

VARIABLES
  \* DependencyDiscoverer.discoverDependencies
  imports,      \* the plugin's findDependencies answers so far, per path
  maxDepth,     \* the maxDepth argument
  queue,        \* FIFO of [path, depth]
  discovered,   \* Set<string> of expanded paths
  files,        \* the result list (paths of the ParsedFiles pushed)
  tpc,          \* position: "loop" | "batch" | "parsing" | "done"
  cur,          \* the entry popped last: [path, depth]
  batchStart,   \* i of the batch loop
  parseCount,   \* number of plugin.parseFile calls per path
  parseFailed,  \* some parseFile call has thrown
  parseResults, \* how the parseFile calls of the batch in hand have settled
  inFlight,     \* parseFile calls of the batch in hand that have not settled
  \* LLMService
  totalCost,    \* this.totalCost, in units of 5e-9 dollars
  costLimit,    \* this.costLimit, same unit
  llm,          \* the understandCode / generateTestCode calls, per caller
  remoteCalls,  \* number of client.chat.completions.create calls issued
  \* CacheManager and the files it fingerprints
  disk,         \* content of each file on disk (0: the file cannot be read)
  fileCache,    \* Map<string, CachedFile>: per path <<>> or <<entry>>
  parsedObjs,   \* number of ParsedFile objects handed to setParsedFile
  lastOp,       \* the cache operation completed last
  getResult,    \* what the last getParsedFile returned: <<>> (null) or <<obj>>
  now,          \* Date.now()
  \* QualityGate
  rules,        \* this.rules
  gatePkg,      \* the metrics of the package given to the last evaluate
  gateResult,   \* what the gate operation completed last returned: <<>> or <<result>>
  \* CodeReadingAgent
  hasErrorListener,  \* a listener is attached to the agent's 'error' event
  apc,          \* where the process call is
  run,          \* the locals of the process call and what it settled with
  llmCache,     \* CacheManager.llmCache of the agent: key -> response text
  llmStoredAt,  \* when each key of llmCache was set (the map keeps no time)
  \* LargeCodebaseHandler.chunkFile
  chunkInput,   \* the ParsedFile given to the last chunkFile call
  chunks,       \* what that call returned: <<>> before any call, <<list>> after
  \* process calls of one agent running together
  procs,        \* per call of a batch: where it is in understandCode
  readers       \* per call: where it is in readFile

travVars == <<imports, maxDepth, queue, discovered, files, tpc, cur,
              batchStart, parseCount, parseFailed, parseResults, inFlight>>

llmVars == <<totalCost, costLimit, llm, remoteCalls>>

cacheVars == <<disk, fileCache, parsedObjs, lastOp, getResult, now>>

gateVars == <<rules, gatePkg, gateResult>>

agentVars == <<hasErrorListener, apc, run, llmCache, llmStoredAt>>

chunkVars == <<chunkInput, chunks>>

batchVars == <<procs, readers>>

vars == <<travVars, llmVars, cacheVars, gateVars, agentVars, chunkVars, batchVars>>

\* what each component leaves alone
notTrav == <<llmVars, cacheVars, gateVars, agentVars, chunkVars, batchVars>>
notLLM == <<travVars, cacheVars, gateVars, agentVars, chunkVars, batchVars>>
notCache == <<travVars, llmVars, gateVars, agentVars, chunkVars, batchVars>>
notGate == <<travVars, llmVars, cacheVars, agentVars, chunkVars, batchVars>>
notAgent == <<travVars, llmVars, cacheVars, gateVars, chunkVars, batchVars>>
notChunk == <<travVars, llmVars, cacheVars, gateVars, agentVars, batchVars>>

\* =====================================================================
\* LLMService (src/plugins/interfaces.ts:121-298)
\* =====================================================================
\* Money is counted in units of 5e-9 dollars, the largest unit in which the
\* price of one prompt character (1.75e-7 $), of one input token (5e-7 $)
\* and of one output token (1.5e-6 $) are all whole numbers.
UnitsPerCent == 2000000
DefaultCostLimit == 1000 * UnitsPerCent        \* costLimit: number = 10.0

\* An optional value is <<>> (undefined) or <<v>>.
Undefined == <<>>
Some(v) == <<v>>

\* String.prototype.includes (case-sensitive substring test)
Includes(hay, needle) ==
  \E i \in 1..(Len(hay) - Len(needle) + 1) :
     SubSeq(hay, i, i + Len(needle) - 1) = needle

\* estimateCost: tokens = length / 4; 80% at $0.0005/1k, 20% at $0.0015/1k
PricePerChar == 35
\* mutant: every token is priced at the output rate
estimateCost_OutputRate(promptLen) == promptLen * 75
estimateCost(promptLen) == promptLen * PricePerChar

\* mutant: the output share is subtracted instead of added
calculateCost_Refund(inputTokens, outputTokens) ==
  inputTokens * 100 - outputTokens * 300
\* calculateCost: $0.0005/1k input tokens, $0.0015/1k output tokens
calculateCost(inputTokens, outputTokens) ==
  inputTokens * 100 + outputTokens * 300

\* `const limit = costLimit || this.costLimit;`
EffectiveLimit(perCall, instance) ==
  IF perCall = Undefined \/ perCall[1] = 0 THEN instance ELSE perCall[1]

\* mutant: the check compares the estimate alone with the limit
ExceedsLimit_EstimateOnly(total, est, limit) == est > limit
\* `if (this.totalCost + estimatedCost > limit)`
ExceedsLimit(total, est, limit) == total + est > limit

UnderstandCostMsg == "Cost limit exceeded. Current: $, Estimated: $, Limit: $"
GenerateCostMsg == "Cost limit exceeded. Estimated: $"
NoResponseMsg == "No response from LLM"
JsonSyntaxMsg == "Unexpected token < in JSON at position 0"
ConnectionMsg == "Connection error."
QuotaMsg == "Request refused: account cost limit reached"
RemoteErrorMsgs == {ConnectionMsg, QuotaMsg}

\* `error instanceof Error && error.message.includes('cost limit')`
\* mutant: every error caught is thrown again
Rethrows_All(msg) == TRUE
Rethrows(msg) == Includes(msg, "cost limit")

\* The JSON documents the remote service may answer with; each field is
\* optional.
FullJson == [purpose |-> Some("does x"), edgeCases |-> Some(<<"e1">>),
             errorConditions |-> Some(<<"c1">>), testScenarios |-> Some(<<"s1">>),
             confidence |-> Some(9)]
EmptyJson == [purpose |-> Undefined, edgeCases |-> Undefined,
              errorConditions |-> Undefined, testScenarios |-> Undefined,
              confidence |-> Undefined]
ZeroConfidenceJson == [FullJson EXCEPT !.confidence = Some(0)]
JsonDocs == {FullJson, EmptyJson, ZeroConfidenceJson}

\* `x || d` for a string, a number and an array (an array is never falsy)
OrStr(v, d) == IF v = Undefined \/ v[1] = "" THEN d ELSE v[1]
OrNum(v, d) == IF v = Undefined \/ v[1] = 0 THEN d ELSE v[1]
OrList(v, d) == IF v = Undefined THEN d ELSE v[1]

\* normalizeUnderstanding; confidence in tenths
normalizeUnderstanding(parsed) ==
  [purpose |-> OrStr(parsed.purpose, "Unknown"),
   edgeCases |-> OrList(parsed.edgeCases, <<>>),
   errorConditions |-> OrList(parsed.errorConditions, <<>>),
   testScenarios |-> OrList(parsed.testScenarios, <<>>),
   confidence |-> OrNum(parsed.confidence, 5)]

\* fallbackUnderstanding; confidence 0.1
fallbackUnderstanding ==
  [purpose |-> "Could not analyze - LLM error",
   edgeCases |-> <<>>, errorConditions |-> <<>>, testScenarios |-> <<>>,
   confidence |-> 1]

Callers == 1..MaxCallers
PromptLens == {1000, 40000}
PerCallLimits == {Undefined, Some(0), Some(20000), Some(2 * UnitsPerCent)}
InstanceLimits == {DefaultCostLimit, 100000}
Usages == {[inTok |-> 0, outTok |-> 0], [inTok |-> 250, outTok |-> 100]}

\* What the awaited client.chat.completions.create call settles with.
Outcomes ==
  [kind : {"content"}, json : JsonDocs, usage : Usages, msg : {""}]
  \cup [kind : {"badjson", "empty"}, json : {EmptyJson}, usage : Usages, msg : {""}]
  \cup [kind : {"error"}, json : {EmptyJson},
        usage : {[inTok |-> 0, outTok |-> 0]}, msg : RemoteErrorMsgs]

IdleCall == [pc |-> "idle", op |-> "none", est |-> 0, limit |-> 0,
             err |-> "", origin |-> "none", result |-> Undefined]

\* understandCode up to its first await, for a prompt of len characters and
\* the per-call limit perCall: the call is refused by the check or the
\* remote call is started.
UnderstandCodeStart(len, perCall) ==
  LET est == estimateCost(len)
      limit == EffectiveLimit(perCall, costLimit)
  IN IF ExceedsLimit(totalCost, est, limit)
     THEN [pc |-> "raised", op |-> "understand", est |-> est,
           limit |-> limit, err |-> UnderstandCostMsg,
           origin |-> "check", result |-> Undefined]
     ELSE [pc |-> "awaiting", op |-> "understand", est |-> est,
           limit |-> limit, err |-> "", origin |-> "none",
           result |-> Undefined]

\* The catch block of understandCode.
UnderstandCodeCatch(call, msg) ==
  IF Rethrows(msg)
  THEN [call EXCEPT !.pc = "raised", !.err = msg, !.origin = "remote"]
  ELSE [call EXCEPT !.pc = "returned", !.err = msg,
                    !.origin = "remote", !.result = Some(fallbackUnderstanding)]

\* The rest of understandCode once the remote call has settled with o.
UnderstandCodeFinish(call, o) ==
  CASE o.kind = "error" -> UnderstandCodeCatch(call, o.msg)
    [] o.kind = "empty" -> UnderstandCodeCatch(call, NoResponseMsg)
    [] o.kind = "content" ->
         [call EXCEPT !.pc = "returned",
                      !.result = Some(normalizeUnderstanding(o.json))]
    [] o.kind = "badjson" -> UnderstandCodeCatch(call, JsonSyntaxMsg)

\* What the settled call adds to this.totalCost: the usage is charged once
\* the response has a content, before the content is parsed.
UnderstandCodeCharge(o) ==
  IF o.kind \in {"content", "badjson"}
  THEN calculateCost(o.usage.inTok, o.usage.outTok)
  ELSE 0

UnderstandCodeCall(c) ==
  /\ llm[c].pc # "awaiting"
  /\ remoteCalls < MaxRemoteCalls
  /\ \E len \in PromptLens, perCall \in PerCallLimits :
       /\ llm' = [llm EXCEPT ![c] = UnderstandCodeStart(len, perCall)]
       /\ remoteCalls' = IF llm'[c].pc = "awaiting"
                         THEN remoteCalls + 1 ELSE remoteCalls
  /\ UNCHANGED <<totalCost, costLimit>>
  /\ UNCHANGED notLLM

UnderstandCodeSettle(c) ==
  /\ llm[c].pc = "awaiting"
  /\ llm[c].op = "understand"
  /\ \E o \in Outcomes :
       /\ llm' = [llm EXCEPT ![c] = UnderstandCodeFinish(llm[c], o)]
       /\ totalCost' = totalCost + UnderstandCodeCharge(o)
  /\ UNCHANGED <<costLimit, remoteCalls>>
  /\ UNCHANGED notLLM

\* generateTestCode up to its first await; the check uses this.costLimit.
GenerateTestCodeCall(c) ==
  /\ llm[c].pc # "awaiting"
  /\ remoteCalls < MaxRemoteCalls
  /\ \E len \in PromptLens :
       LET est == estimateCost(len) IN
       IF ExceedsLimit(totalCost, est, costLimit)
       THEN /\ llm' = [llm EXCEPT ![c] =
                  [pc |-> "raised", op |-> "generate", est |-> est,
                   limit |-> costLimit, err |-> GenerateCostMsg,
                   origin |-> "check", result |-> Undefined]]
            /\ UNCHANGED remoteCalls
       ELSE /\ llm' = [llm EXCEPT ![c] =
                  [pc |-> "awaiting", op |-> "generate", est |-> est,
                   limit |-> costLimit, err |-> "", origin |-> "none",
                   result |-> Undefined]]
            /\ remoteCalls' = remoteCalls + 1
  /\ UNCHANGED <<totalCost, costLimit>>
  /\ UNCHANGED notLLM

\* The rest of generateTestCode: every error is caught and the placeholder
\* text returned.
GenerateTestCodeSettle(c) ==
  /\ llm[c].pc = "awaiting"
  /\ llm[c].op = "generate"
  /\ \E o \in Outcomes :
       IF o.kind = "error"
       THEN /\ llm' = [llm EXCEPT ![c] = [llm[c] EXCEPT !.pc = "returned",
                         !.err = o.msg, !.origin = "remote",
                         !.result = Some("// Error generating tests")]]
            /\ UNCHANGED totalCost
       ELSE /\ totalCost' = totalCost + calculateCost(o.usage.inTok, o.usage.outTok)
            /\ llm' = [llm EXCEPT ![c] = [llm[c] EXCEPT !.pc = "returned",
                         !.result = Some(IF o.kind = "empty" THEN "" ELSE "test code")]]
  /\ UNCHANGED <<costLimit, remoteCalls>>
  /\ UNCHANGED notLLM

\* resetCost(): no caller in the repository; an API of the class.
ResetCost ==
  /\ totalCost > 0
  /\ totalCost' = 0
  /\ UNCHANGED <<costLimit, llm, remoteCalls>>
  /\ UNCHANGED notLLM

\* constructor(apiKey, model, costLimit = 10.0): a service built with a
\* limit of its own, before any call.
NewLLMService ==
  /\ costLimit = DefaultCostLimit
  /\ totalCost = 0
  /\ remoteCalls = 0
  /\ \A c \in Callers : llm[c].pc = "idle"
  /\ costLimit' \in InstanceLimits \ {DefaultCostLimit}
  /\ UNCHANGED <<totalCost, llm, remoteCalls>>
  /\ UNCHANGED notLLM

LLMNext ==
  \/ NewLLMService
  \/ \E c \in Callers : UnderstandCodeCall(c)
  \/ \E c \in Callers : UnderstandCodeSettle(c)
  \/ \E c \in Callers : GenerateTestCodeCall(c)
  \/ \E c \in Callers : GenerateTestCodeSettle(c)
  \/ ResetCost


\* =====================================================================
\* DependencyDiscoverer (src/analysis/LargeCodebaseHandler.ts:185-245)
\* =====================================================================
Paths == 1..MaxPaths
RootPath == 1
batchSize == 10

SeqsUpTo(S, n) == UNION {[1..k -> S] : k \in 0..n}

Min(a, b) == IF a < b THEN a ELSE b

\* `if (depth >= maxDepth) continue;`
SkipsEntry(depth) == depth >= maxDepth

\* mutant: the discovered test never skips an entry
AlreadyDiscovered_Never(p) == FALSE
\* `if (discovered.has(currentFile.path)) continue;`
AlreadyDiscovered(p) == p \in discovered

\* mutant: the root (depth 0) is pushed too
RecordsEntry_Always(depth) == TRUE
\* `if (depth > 0) files.push(currentFile)`
RecordsEntry(depth) == depth > 0

\* `if (!discovered.has(dep.path))` guarding plugin.parseFile(dep.path)
ParsesDep(p) == p \notin discovered

\* Number of import edges the plugin has reported so far.
RECURSIVE EdgesOf(_, _)
EdgesOf(imp, S) ==
  IF S = {} THEN 0
  ELSE LET p == CHOOSE x \in S : TRUE IN Len(imp[p]) + EdgesOf(imp, S \ {p})

\* findDependencies is asked at most once per path in one run (the
\* discovered test precedes it), so its answer is drawn when it is asked;
\* a path not asked yet has the empty list here.  The import graph as a
\* whole has at most MaxEdges edges.
DiscoverDependencies ==
  /\ tpc = "idle"
  /\ \E d \in 0..MaxDepthArg : maxDepth' = d
  /\ queue' = <<[path |-> RootPath, depth |-> 0]>>
  /\ discovered' = {}
  /\ files' = <<>>
  /\ tpc' = "loop"
  /\ UNCHANGED <<imports, cur, batchStart, parseCount, parseFailed,
                 parseResults, inFlight>>
  /\ UNCHANGED notTrav

\* An import list longer than one batch: a full batch of imports of one
\* file, then an import of another file and one more of the first.
LongImports ==
  {[k \in 1..(batchSize + 2) |-> IF k = batchSize + 1 THEN 3 ELSE 2]}

\* What findDependencies may answer when `edges` import edges have been
\* reported: a list within the edges left, or (as the first answer) a list
\* longer than one batch.
ImportLists(edges) ==
  IF edges = 0 THEN SeqsUpTo(Paths, MaxEdges) \cup LongImports
  ELSE IF edges < MaxEdges THEN SeqsUpTo(Paths, MaxEdges - edges)
  ELSE {<<>>}

\* One iteration of the while loop up to and including findDependencies.
Shift ==
  /\ tpc = "loop"
  /\ queue # <<>>
  /\ LET e == Head(queue) IN
     /\ queue' = Tail(queue)
     /\ cur' = e
     /\ IF SkipsEntry(e.depth) \/ AlreadyDiscovered(e.path)
        THEN UNCHANGED <<discovered, files, tpc, batchStart, imports>>
        ELSE \E deps \in ImportLists(EdgesOf(imports, Paths)) :
             /\ discovered' = discovered \cup {e.path}
             /\ files' = IF RecordsEntry(e.depth) THEN Append(files, e.path) ELSE files
             /\ imports' = [imports EXCEPT ![e.path] = deps]
             /\ batchStart' = 0
             /\ tpc' = IF Len(deps) > 0 THEN "batch" ELSE "loop"
  /\ parseResults' = <<>>
  /\ UNCHANGED <<maxDepth, parseCount, parseFailed, inFlight>>
  /\ UNCHANGED notTrav

\* One batch: every dep of the slice is tested against discovered and, if
\* absent, parsed; the parses settle (each may throw) and the successful
\* ones are queued in batch order at depth + 1.
RECURSIVE QueuedOf(_, _, _)
QueuedOf(batch, ok, depth) ==
  IF batch = <<>> THEN <<>>
  ELSE LET rest == QueuedOf(Tail(batch), Tail(ok), depth) IN
       IF ParsesDep(Head(batch)) /\ Head(ok)
       THEN <<[path |-> Head(batch), depth |-> depth + 1]>> \o rest
       ELSE rest

\* mutant: one parseFile that throws leaves nothing of its batch
ValidResults_AllOrNothing(batch, ok, depth) ==
  IF \E k \in 1..Len(batch) : ParsesDep(batch[k]) /\ ~ok[k]
  THEN <<>>
  ELSE QueuedOf(batch, ok, depth)
\* `for (const result of batchResults) if (result) queue.push(result)`
ValidResults(batch, ok, depth) == QueuedOf(batch, ok, depth)

CountIn(batch, p) == Cardinality({k \in 1..Len(batch) : batch[k] = p})

\* The batch.map callback per dep: no parseFile call for a path already in
\* discovered; else the call returns the file or throws.
Settled(batch, ok) ==
  [k \in 1..Len(batch) |->
     IF ~ParsesDep(batch[k]) THEN "skipped"
     ELSE IF ok[k] THEN "parsed" ELSE "threw"]

\* mutant: the slice runs to the end of the import list
BatchEnd_Whole(start, n) == n
\* `dependencies.slice(i, i + batchSize)`: the index of its last element
BatchEnd(start, n) == Min(start + batchSize, n)

\* `batch.map(async (dep) => ...)`: the callbacks run up to their await; a
\* parseFile call is in flight for every dep of the slice not in discovered.
StartBatch ==
  /\ tpc = "batch"
  /\ LET deps == imports[cur.path]
         batch == SubSeq(deps, batchStart + 1, BatchEnd(batchStart, Len(deps)))
     IN inFlight' = inFlight + Cardinality({k \in 1..Len(batch) : ParsesDep(batch[k])})
  /\ tpc' = "parsing"
  /\ UNCHANGED <<imports, maxDepth, queue, discovered, files, cur,
                 batchStart, parseCount, parseFailed, parseResults>>
  /\ UNCHANGED notTrav

\* One parseFile call of the batch settles.
ParseSettled ==
  /\ tpc = "parsing"
  /\ inFlight > 0
  /\ inFlight' = inFlight - 1
  /\ UNCHANGED <<imports, maxDepth, queue, discovered, files, tpc, cur,
                 batchStart, parseCount, parseFailed, parseResults>>
  /\ UNCHANGED notTrav

\* `await Promise.all(...)` is over: every call of the batch has settled.
ProcessBatch ==
  /\ tpc = "parsing"
  /\ inFlight = 0
  /\ LET deps == imports[cur.path]
         last == BatchEnd(batchStart, Len(deps))
         batch == SubSeq(deps, batchStart + 1, last)
     IN \E ok \in [1..Len(batch) -> BOOLEAN] :
          /\ queue' = queue \o ValidResults(batch, ok, cur.depth)
          /\ parseResults' = Settled(batch, ok)
          /\ parseCount' = [p \in Paths |->
                 parseCount[p] + (IF ParsesDep(p) THEN CountIn(batch, p) ELSE 0)]
          /\ parseFailed' = (parseFailed \/
                 \E k \in 1..Len(batch) : ParsesDep(batch[k]) /\ ~ok[k])
          /\ batchStart' = batchStart + batchSize
          /\ tpc' = IF batchStart + batchSize < Len(deps) THEN "batch" ELSE "loop"
  /\ UNCHANGED <<imports, maxDepth, discovered, files, cur, inFlight>>
  /\ UNCHANGED notTrav

\* `return files` once the queue is empty.
ReturnFiles ==
  /\ tpc = "loop"
  /\ queue = <<>>
  /\ tpc' = "done"
  /\ UNCHANGED <<imports, maxDepth, queue, discovered, files, cur,
                 batchStart, parseCount, parseFailed, parseResults, inFlight>>
  /\ UNCHANGED notTrav

TravNext ==
  \/ DiscoverDependencies
  \/ Shift
  \/ StartBatch
  \/ ParseSettled
  \/ ProcessBatch
  \/ ReturnFiles


\* =====================================================================
\* CacheManager, file entries (src/cache/CacheManager.ts:15-97)
\* =====================================================================
CachePaths == 1..MaxCachePaths
Unreadable == 0
Contents == 1..MaxContents

\* hashFile: md5 of the file's text, '' when the file cannot be read
hashFile(content) ==
  IF content = Unreadable THEN "" ELSE "md5:" \o ToString(content)

\* mutant: a changed file is reported as a miss but the entry is kept
AfterStaleGet_Kept(entry) == entry
\* `this.fileCache.delete(filePath)`
AfterStaleGet(entry) == <<>>

\* A file of the project is written, replaced or removed.
WriteFile(p) ==
  /\ \E c \in Contents \cup {Unreadable} :
       /\ c # disk[p]
       /\ disk' = [disk EXCEPT ![p] = c]
  /\ lastOp' = [op |-> "write", path |-> p, branch |-> "none"]
  /\ UNCHANGED <<fileCache, parsedObjs, getResult, now>>
  /\ UNCHANGED notCache

\* setParsedFile(filePath, content): a new ParsedFile object (parsed from
\* some text of the file) is stored with the hash of the file as it is now.
SetParsedFile(p) ==
  /\ parsedObjs < MaxParsedObjs
  /\ \E from \in Contents :
       fileCache' = [fileCache EXCEPT ![p] =
          <<[content |-> [id |-> parsedObjs + 1, path |-> p, from |-> from],
             hash |-> hashFile(disk[p]), timestamp |-> now]>>]
  /\ parsedObjs' = parsedObjs + 1
  /\ lastOp' = [op |-> "set", path |-> p, branch |-> "none"]
  /\ UNCHANGED <<disk, getResult, now>>
  /\ UNCHANGED notCache

\* getParsedFile(filePath)
GetParsedFile(p) ==
  /\ IF fileCache[p] = <<>>
     THEN /\ getResult' = <<>>
          /\ lastOp' = [op |-> "get", path |-> p, branch |-> "absent"]
          /\ UNCHANGED fileCache
     ELSE LET cached == fileCache[p][1] IN
          IF hashFile(disk[p]) = cached.hash
          THEN /\ getResult' = <<cached.content>>
               /\ lastOp' = [op |-> "get", path |-> p, branch |-> "hit"]
               /\ UNCHANGED fileCache
          ELSE /\ getResult' = <<>>
               /\ lastOp' = [op |-> "get", path |-> p, branch |-> "stale"]
               /\ fileCache' = [fileCache EXCEPT ![p] = AfterStaleGet(fileCache[p])]
  /\ UNCHANGED <<disk, parsedObjs, now>>
  /\ UNCHANGED notCache

\* Map.prototype.set
setLLMResponse(map, key, value) ==
  [k \in DOMAIN map \cup {key} |-> IF k = key THEN value ELSE map[k]]

\* The keys and responses given to setLLMResponse.
LLMKeys == {"1_40000"}
LLMResponses == {[json |-> "understanding"]}

\* setLLMResponse(key, response): this.llmCache.set(key, response)
SetLLMResponse ==
  /\ \E key \in LLMKeys, response \in LLMResponses :
       /\ llmCache' = setLLMResponse(llmCache, key, response)
       /\ llmStoredAt' = setLLMResponse(llmStoredAt, key, now)
  /\ lastOp' = [op |-> "setLLM", path |-> 1, branch |-> "none"]
  /\ UNCHANGED <<disk, fileCache, parsedObjs, getResult, now>>
  /\ UNCHANGED <<hasErrorListener, apc, run>>
  /\ UNCHANGED <<travVars, llmVars, gateVars, chunkVars, batchVars>>

\* cleanup(maxAge): file entries older than maxAge are deleted.
Cleanup ==
  /\ \E maxAge \in 0..MaxClock :
       fileCache' = [p \in CachePaths |->
          IF fileCache[p] # <<>> /\ now - fileCache[p][1].timestamp > maxAge
          THEN <<>> ELSE fileCache[p]]
  /\ lastOp' = [op |-> "cleanup", path |-> 1, branch |-> "none"]
  /\ UNCHANGED <<disk, parsedObjs, getResult, now>>
  /\ UNCHANGED notCache

\* Time passes.
Tick ==
  /\ now < MaxClock
  /\ now' = now + 1
  /\ UNCHANGED <<disk, fileCache, parsedObjs, lastOp, getResult>>
  /\ UNCHANGED notCache

CacheNext ==
  \/ Cleanup
  \/ SetLLMResponse
  \/ Tick
  \/ \E p \in CachePaths : WriteFile(p)
  \/ \E p \in CachePaths : SetParsedFile(p)
  \/ \E p \in CachePaths : GetParsedFile(p)

\* =====================================================================
\* QualityGate (src/quality/QualityGate.ts:35-206)
\* =====================================================================
Operators == {"gt", "lt", "eq", "gte", "lte"}
Severities == {"error", "warning"}

\* getDefaultRules
DefaultRules ==
  << [id |-> "no-critical-security", metric |-> "security", threshold |-> 0,
      operator |-> "eq", severity |-> "error"],
     [id |-> "max-complexity", metric |-> "complexity", threshold |-> 50,
      operator |-> "lte", severity |-> "warning"],
     [id |-> "no-critical-sast", metric |-> "sast", threshold |-> 0,
      operator |-> "eq", severity |-> "error"] >>

\* The rules a caller adds: a complexity threshold of 51 with any operator
\* and severity.
CustomRules ==
  [id : {"custom"}, metric : {"complexity"}, threshold : {51},
   operator : Operators, severity : Severities]

\* A scan result is modelled by its summary.critical count; an optional
\* value is <<>> (undefined) or <<v>>.
ScanResults == {<<>>, <<0>>, <<1>>}

\* The part of a package that evaluate reads: the optional security section
\* with its optional sca and sast results, the cyclomatic complexity and
\* the testability.
Packages ==
  [security : {<<>>} \cup {<<sec>> : sec \in [sca : ScanResults, sast : ScanResults]},
   cyclomatic : {50, 51, 52}, testability : {"high"}]
NoPackage == [security |-> <<>>, cyclomatic |-> 50, testability |-> "high"]

\* `qaPackage.security?.sca?.summary.critical || 0`
ScaCritical(pkg) ==
  IF pkg.security = <<>> THEN 0
  ELSE IF pkg.security[1].sca = <<>> THEN 0 ELSE pkg.security[1].sca[1]

\* `qaPackage.security?.sast?.summary.critical || 0`
SastCritical(pkg) ==
  IF pkg.security = <<>> THEN 0
  ELSE IF pkg.security[1].sast = <<>> THEN 0 ELSE pkg.security[1].sast[1]

\* getMetricValue
getMetricValue(pkg, metric) ==
  CASE metric = "security" -> ScaCritical(pkg) + SastCritical(pkg)
    [] metric = "sast" -> SastCritical(pkg)
    [] metric = "complexity" -> pkg.cyclomatic
    [] metric = "coverage" -> 0
    [] metric = "testability" ->
         (CASE pkg.testability = "high" -> 3
            [] pkg.testability = "medium" -> 2
            [] pkg.testability = "low" -> 1
            [] OTHER -> 0)
    [] OTHER -> 0

\* mutant: a rule of severity warning never fails
evaluateRule_WarningsPass(rule, actualValue) ==
  \/ rule.severity = "warning"
  \/ CASE rule.operator = "gt" -> actualValue > rule.threshold
       [] rule.operator = "lt" -> actualValue < rule.threshold
       [] rule.operator = "eq" -> actualValue = rule.threshold
       [] rule.operator = "gte" -> actualValue >= rule.threshold
       [] rule.operator = "lte" -> actualValue <= rule.threshold
       [] OTHER -> TRUE
\* evaluateRule
evaluateRule(rule, actualValue) ==
  CASE rule.operator = "gt" -> actualValue > rule.threshold
    [] rule.operator = "lt" -> actualValue < rule.threshold
    [] rule.operator = "eq" -> actualValue = rule.threshold
    [] rule.operator = "gte" -> actualValue >= rule.threshold
    [] rule.operator = "lte" -> actualValue <= rule.threshold
    [] OTHER -> TRUE

CountOf(s, Test(_)) == Cardinality({i \in 1..Len(s) : Test(s[i])})

\* mutant: every rule that did not pass is counted as failed
IsFailed_AnySeverity(r) == ~r.passed
\* `r => !r.passed && r.rule.severity === 'error'`
IsFailed(r) == ~r.passed /\ r.rule.severity = "error"

\* evaluate(qaPackage) over the rule list rs
evaluate(rs, pkg) ==
  LET ruleResults == [i \in 1..Len(rs) |->
        LET actualValue == getMetricValue(pkg, rs[i].metric)
            passed == evaluateRule(rs[i], actualValue)
        IN [rule |-> rs[i], passed |-> passed, actualValue |-> actualValue,
            message |-> IF passed THEN "Passed" ELSE "Failed"]]
      IsPassed(r) == r.passed
      IsWarning(r) == ~r.passed /\ r.rule.severity = "warning"
      summary == [total |-> Len(ruleResults),
                  passed |-> CountOf(ruleResults, IsPassed),
                  failed |-> CountOf(ruleResults, IsFailed),
                  warnings |-> CountOf(ruleResults, IsWarning)]
  IN [passed |-> summary.failed = 0, rules |-> ruleResults, summary |-> summary]

Evaluate ==
  /\ \E pkg \in Packages :
       /\ gatePkg' = pkg
       /\ gateResult' = <<evaluate(rules, pkg)>>
  /\ UNCHANGED rules
  /\ UNCHANGED notGate

AddedRules(rs) == CountOf(rs, LAMBDA r : r.id = "custom")

\* addRule(rule): this.rules.push(rule)
AddRule ==
  /\ AddedRules(rules) < MaxAddedRules
  /\ \E rule \in CustomRules : rules' = Append(rules, rule)
  /\ gateResult' = <<>>
  /\ gatePkg' = NoPackage
  /\ UNCHANGED notGate

RECURSIVE WithoutId(_, _)
WithoutId(rs, ruleId) ==
  IF rs = <<>> THEN <<>>
  ELSE IF Head(rs).id # ruleId
       THEN <<Head(rs)>> \o WithoutId(Tail(rs), ruleId)
       ELSE WithoutId(Tail(rs), ruleId)

\* mutant: only the first rule with the id is removed
removeRule_FirstOnly(rs, ruleId) ==
  LET idx == {i \in 1..Len(rs) : rs[i].id = ruleId}
  IN IF idx = {} THEN rs
     ELSE LET m == CHOOSE i \in idx : \A j \in idx : i <= j
          IN SubSeq(rs, 1, m - 1) \o SubSeq(rs, m + 1, Len(rs))
\* `this.rules.filter(r => r.id !== ruleId)`
removeRule(rs, ruleId) == WithoutId(rs, ruleId)

\* removeRule(ruleId): this.rules = this.rules.filter(r => r.id !== ruleId)
RemoveRule ==
  /\ \E ruleId \in {"no-critical-security", "max-complexity", "no-critical-sast",
                    "custom", "unknown"} :
       rules' = removeRule(rules, ruleId)
  /\ gateResult' = <<>>
  /\ gatePkg' = NoPackage
  /\ UNCHANGED notGate

GateNext == Evaluate \/ AddRule \/ RemoveRule

\* =====================================================================
\* CodeReadingAgent.process (src/core/Agent.ts:97-239) and its helpers
\* =====================================================================
\* The targets given to process: a file a language plugin handles, and one
\* whose extension no plugin handles.
TargetPath == 1
UnsupportedTarget == 0
Targets == {TargetPath, UnsupportedTarget}

\* options.costLimit: none, 0, $0.0001 and $0.01
AgentCostLimits == {Undefined, Some(0), Some(20000), Some(UnitsPerCent)}
DepthOptions == {Undefined, Some(0), Some(3)}

\* The text of a file, by content: its characters and its lines.
ContentSize(c) == CASE c = 1 -> 40000 [] c = 2 -> 60000 [] OTHER -> 1000
ContentLines(c) == ContentSize(c) \div 40

MAX_FILE_SIZE == 50000
MAX_LINES_FOR_FULL_ANALYSIS == 1500

\* LargeCodebaseHandler.shouldChunk
shouldChunk(file) ==
  \/ ContentSize(file.from) > MAX_FILE_SIZE
  \/ ContentLines(file.from) > MAX_LINES_FOR_FULL_ANALYSIS

StructureOnlyCode == "// File too large, analyzing structure only"

\* The length of context.target.code: the whole text of a file that is not
\* chunked (truncateCode keeps a text of at most 3000 lines), the
\* placeholder of understandLargeCode otherwise.
ContextCodeLength(file) ==
  IF shouldChunk(file) THEN Len(StructureOnlyCode) ELSE ContentSize(file.from)

\* hashContext: `${context.target?.path || ''}_${codeHash}`
hashContext(file) ==
  ToString(file.path) \o "_" \o ToString(ContextCodeLength(file))

\* The length of the prompt built from the context; the code it embeds.
PromptLength(file) == ContextCodeLength(file)

\* JSON.stringify(understanding) and JSON.parse(cached)
Stringify(u) == [json |-> u]
Parse(text) == text.json

\* `options?.maxDependencyDepth || 2`
DepthOrDefault(opt) == IF opt = Undefined \/ opt[1] = 0 THEN 2 ELSE opt[1]

UnsupportedMsg == "Unsupported file type: .xyz. Supported: .ts, .tsx, .js, .jsx"
EnoentMsg == "ENOENT: no such file or directory, open 'target'"
ParseEnoentMsg == "Failed to parse TypeScript file target: Error: " \o EnoentMsg
MissingTargetMsgs == {EnoentMsg, ParseEnoentMsg}
AnalysisMsg == "Cannot read properties of undefined (reading 'length')"

FileNotFoundMsg(target) ==
  "File not found: " \o ToString(target) \o ". Check the path and try again."
CostLimitMsg ==
  "Cost limit exceeded. Try reducing dependency depth or using a cheaper model."

\* wrapError
wrapError(msg, target) ==
  IF Includes(msg, "ENOENT") THEN FileNotFoundMsg(target)
  ELSE IF Includes(msg, "cost limit") THEN CostLimitMsg
  ELSE msg

\* The locals of a process call that has just started; they are gone once
\* the call has settled, when only what it returned or threw is left.
\* costLimit is options.costLimit as handed to the client for the call of
\* understandCode in hand or refused.
FreshRun(target) ==
  [target |-> target, targetFile |-> Undefined,
   maxDependencyDepth |-> Undefined, maxDepth |-> 0,
   analysis |-> Undefined, analysisThrew |-> FALSE,
   scan |-> "none", securityScan |-> Undefined, sastResult |-> Undefined,
   costLimit |-> Undefined, cached |-> Undefined, call |-> IdleCall,
   understanding |-> Undefined, qaPackage |-> Undefined,
   warnings |-> {}, raised |-> "", cause |-> "none", thrown |-> "",
   returned |-> Undefined]

\* The catch block of process. `this.emit('error', error)` throws its
\* argument when the emitter has no 'error' listener, and the statements
\* after it are not reached; with a listener the wrapped error is thrown.
ProcessCatch(r, msg, cause) ==
  [FreshRun(r.target) EXCEPT
     !.warnings = r.warnings, !.raised = msg, !.cause = cause,
     !.thrown = IF hasErrorListener THEN wrapError(msg, r.target) ELSE msg]

\* mutant: the section is there only when the dependency scan has a result
SecuritySection_ScaOnly(securityScan, sastResult) ==
  IF securityScan # Undefined
  THEN Some([sca |-> securityScan, sast |-> sastResult])
  ELSE Undefined
\* buildPackage: `security: securityScan || sastResult ? {sca, sast} : undefined`
SecuritySection(securityScan, sastResult) ==
  IF securityScan # Undefined \/ sastResult # Undefined
  THEN Some([sca |-> securityScan, sast |-> sastResult])
  ELSE Undefined

\* agent.on('error', listener)
OnError ==
  /\ ~hasErrorListener
  /\ apc \in {"idle", "returned", "failed"}
  /\ hasErrorListener' = TRUE
  /\ UNCHANGED <<apc, run, llmCache, llmStoredAt>>
  /\ UNCHANGED notAgent

\* process(target, options): the call starts; plugins are registered and the
\* project detected.
Process ==
  /\ apc \in {"idle", "returned", "failed"}
  /\ \E target \in Targets : run' = FreshRun(target)
  /\ apc' = "select"
  /\ UNCHANGED <<hasErrorListener, llmCache, llmStoredAt>>
  /\ UNCHANGED notAgent

\* Step 2: getLanguagePluginByExtension(target)
SelectPlugin ==
  /\ apc = "select"
  /\ IF run.target = UnsupportedTarget
     THEN /\ run' = ProcessCatch(run, UnsupportedMsg, "unsupported")
          /\ apc' = "failed"
     ELSE /\ apc' = "read"
          /\ UNCHANGED run
  /\ UNCHANGED <<hasErrorListener, llmCache, llmStoredAt>>
  /\ UNCHANGED notAgent

\* Step 3: readFile(target, languagePlugin): the cached ParsedFile when its
\* hash is that of the file, the file parsed and cached otherwise.
ReadFile ==
  /\ apc = "read"
  /\ LET p == run.target
         entry == fileCache[p]
         hit == entry # <<>> /\ hashFile(disk[p]) = entry[1].hash
         afterGet == IF entry = <<>> THEN fileCache
                     ELSE [fileCache EXCEPT ![p] = AfterStaleGet(entry)]
     IN IF hit
        THEN /\ run' = [run EXCEPT !.targetFile = Some(entry[1].content)]
             /\ apc' = "discover"
             /\ UNCHANGED <<fileCache, parsedObjs>>
        ELSE IF disk[p] = Unreadable
        THEN /\ \E msg \in MissingTargetMsgs :
                  run' = ProcessCatch(run, msg, "missing")
             /\ apc' = "failed"
             /\ fileCache' = afterGet
             /\ UNCHANGED parsedObjs
        ELSE /\ parsedObjs < MaxParses
             /\ LET file == [id |-> parsedObjs + 1, path |-> p, from |-> disk[p]] IN
                /\ run' = [run EXCEPT !.targetFile = Some(file)]
                /\ fileCache' = [fileCache EXCEPT ![p] =
                      <<[content |-> file, hash |-> hashFile(disk[p]),
                         timestamp |-> now]>>]
             /\ parsedObjs' = parsedObjs + 1
             /\ apc' = "discover"
  /\ getResult' = <<>>
  /\ lastOp' = [op |-> "readFile", path |-> run.target, branch |-> "none"]
  /\ UNCHANGED <<hasErrorListener, llmCache, llmStoredAt, disk, now>>
  /\ UNCHANGED <<travVars, llmVars, gateVars, chunkVars, batchVars>>

\* Step 4: the dependencies are discovered within
\* `options?.maxDependencyDepth || 2`.
DiscoverTargetDependencies ==
  /\ apc = "discover"
  /\ \E opt \in DepthOptions :
       run' = [run EXCEPT !.maxDepth = DepthOrDefault(opt)]
  /\ apc' = "step5"
  /\ UNCHANGED <<hasErrorListener, llmCache, llmStoredAt>>
  /\ UNCHANGED notAgent

\* Step 5, up to the await of Promise.all: analyzeCode and runSASTAnalysis
\* run to their end, runSecurityScan to its await of the scanner.
StartStep5 ==
  /\ apc = "step5"
  /\ run.scan = "none"
  /\ \E a \in {"throws", "51"}, securityEnabled \in BOOLEAN,
        sast \in {"disabled", "throws", "0", "1"} :
       run' = [run EXCEPT
          !.analysis = IF a = "51" THEN Some([cyclomatic |-> 51]) ELSE Undefined,
          !.analysisThrew = (a = "throws"),
          !.scan = IF securityEnabled THEN "pending" ELSE "settled",
          !.sastResult = CASE sast = "0" -> Some(0)
                           [] sast = "1" -> Some(1)
                           [] OTHER -> Undefined,
          !.warnings = IF sast = "throws" THEN {"SAST analysis failed"} ELSE {}]
  /\ UNCHANGED <<apc, hasErrorListener, llmCache, llmStoredAt>>
  /\ UNCHANGED notAgent

\* runSecurityScan after its await: the result of the scanner, or
\* undefined and a warning when the scanner threw.
SecurityScanSettle ==
  /\ apc = "step5"
  /\ run.scan = "pending"
  /\ \E o \in {"throws", "0", "1"} :
       run' = [run EXCEPT
          !.scan = "settled",
          !.securityScan = CASE o = "0" -> Some(0)
                             [] o = "1" -> Some(1)
                             [] OTHER -> Undefined,
          !.warnings = IF o = "throws" THEN @ \cup {"Security scan failed"} ELSE @]
  /\ UNCHANGED <<apc, hasErrorListener, llmCache, llmStoredAt>>
  /\ UNCHANGED notAgent

\* Promise.all rejects as soon as analyzeCode has.
RejectStep5 ==
  /\ apc = "step5"
  /\ run.scan # "none"
  /\ run.analysisThrew
  /\ run' = ProcessCatch(run, AnalysisMsg, "analysis")
  /\ apc' = "failed"
  /\ UNCHANGED <<hasErrorListener, llmCache, llmStoredAt>>
  /\ UNCHANGED notAgent

\* Promise.all fulfils when the three have.
JoinStep5 ==
  /\ apc = "step5"
  /\ run.scan = "settled"
  /\ ~run.analysisThrew
  /\ apc' = "understand"
  /\ UNCHANGED <<run, hasErrorListener, llmCache, llmStoredAt>>
  /\ UNCHANGED notAgent

\* What the completion of the agent's client settles with.
AgentOutcomes ==
  {o \in Outcomes : /\ o.kind = "content" => o.json = FullJson
                    /\ o.kind # "error" => o.usage.inTok > 0
                    /\ o.kind # "empty"}

\* mutant: the response cache never answers
getLLMResponse_Miss(map, key) == Undefined
\* CacheManager.getLLMResponse: `this.llmCache.get(key) || null`
getLLMResponse(map, key) ==
  IF key \in DOMAIN map THEN Some(map[key]) ELSE Undefined

\* Steps 6 and 7, understandCode / understandLargeCode up to the await of
\* the completion: the cached response, or the call of the client.
Understand ==
  /\ apc = "understand"
  /\ LET file == run.targetFile[1]
         cacheKey == hashContext(file)
         cached == getLLMResponse(llmCache, cacheKey)
     IN IF cached # Undefined
        THEN /\ run' = [run EXCEPT !.cached = cached,
                                   !.understanding = Some(Parse(cached[1]))]
             /\ apc' = "build"
             /\ UNCHANGED remoteCalls
        ELSE /\ remoteCalls < MaxRemoteCalls
             /\ \E perCall \in AgentCostLimits :
                LET call == UnderstandCodeStart(PromptLength(file), perCall) IN
                IF call.pc = "raised"
                THEN /\ run' = [ProcessCatch(run, call.err, "cost") EXCEPT
                                     !.costLimit = perCall, !.call = call]
                     /\ apc' = "failed"
                     /\ UNCHANGED remoteCalls
                ELSE /\ run' = [run EXCEPT !.costLimit = perCall, !.call = call]
                     /\ apc' = "awaiting"
                     /\ remoteCalls' = remoteCalls + 1
  /\ UNCHANGED <<hasErrorListener, llmCache, llmStoredAt, totalCost, costLimit, llm>>
  /\ UNCHANGED <<travVars, cacheVars, gateVars, chunkVars, batchVars>>

\* The completion settles: the understanding is cached and returned, or the
\* error the client raised again fails the call.
UnderstandSettle ==
  /\ apc = "awaiting"
  /\ \E o \in AgentOutcomes :
       LET call == UnderstandCodeFinish(run.call, o)
           cacheKey == hashContext(run.targetFile[1])
       IN /\ totalCost' = totalCost + UnderstandCodeCharge(o)
          /\ IF call.pc = "raised"
             THEN /\ run' = ProcessCatch([run EXCEPT !.call = call], call.err, "remote")
                  /\ apc' = "failed"
                  /\ UNCHANGED <<llmCache, llmStoredAt>>
             ELSE /\ run' = [run EXCEPT !.costLimit = Undefined, !.call = IdleCall,
                                        !.understanding = call.result]
                  /\ apc' = "build"
                  /\ llmCache' = setLLMResponse(llmCache, cacheKey,
                                                 Stringify(call.result[1]))
                  /\ llmStoredAt' = setLLMResponse(llmStoredAt, cacheKey, now)
  /\ UNCHANGED <<hasErrorListener, costLimit, llm, remoteCalls>>
  /\ UNCHANGED <<travVars, cacheVars, gateVars, chunkVars, batchVars>>

\* What the quality gate reads of a package.
GateInput(pkg) ==
  [security |-> pkg.security, cyclomatic |-> pkg.analysis.cyclomatic,
   testability |-> "high"]

\* Steps 8 and 9: buildPackage, then the quality gate.
BuildPackage ==
  /\ apc = "build"
  /\ LET pkg == [target |-> run.targetFile[1],
                 analysis |-> run.analysis[1],
                 understanding |-> run.understanding[1],
                 metadata |-> [cost |-> totalCost],
                 security |-> SecuritySection(run.securityScan, run.sastResult),
                 qualityGate |-> Undefined,
                 fixes |-> Undefined]
     IN run' = [run EXCEPT !.qaPackage =
                  Some([pkg EXCEPT !.qualityGate = Some(evaluate(rules, GateInput(pkg)))])]
  /\ apc' = "fixes"
  /\ UNCHANGED <<hasErrorListener, llmCache, llmStoredAt>>
  /\ UNCHANGED notAgent

\* mutant: the catch block leaves the package as it was built
CaughtFixes_Unset(pkg) == pkg
\* The catch block of step 10: `qaPackage.fixes = []`
CaughtFixes(pkg) == [pkg EXCEPT !.fixes = Some(0)]

\* Step 10: the fix suggestions, an empty list when generateFixes threw;
\* the package is returned.
GenerateFixes ==
  /\ apc = "fixes"
  /\ \E o \in {"throws", "0", "1"} :
       LET fixes == IF o = "1" THEN 1 ELSE 0
           pkg == IF o = "throws" THEN CaughtFixes(run.qaPackage[1])
                  ELSE [run.qaPackage[1] EXCEPT !.fixes = Some(fixes)]
       IN run' = [FreshRun(run.target) EXCEPT
             !.returned = Some(pkg),
             !.warnings = IF o = "throws"
                          THEN run.warnings \cup {"Auto-fix generation failed"}
                          ELSE run.warnings]
  /\ apc' = "returned"
  /\ UNCHANGED <<hasErrorListener, llmCache, llmStoredAt>>
  /\ UNCHANGED notAgent

\* The target file is written, replaced or removed.
WriteTarget == WriteFile(TargetPath)

AgentNext ==
  \/ OnError
  \/ Process
  \/ SelectPlugin
  \/ ReadFile
  \/ DiscoverTargetDependencies
  \/ StartStep5
  \/ SecurityScanSettle
  \/ RejectStep5
  \/ JoinStep5
  \/ Understand
  \/ UnderstandSettle
  \/ BuildPackage
  \/ GenerateFixes
  \/ WriteTarget

\* ---------------------------------------------------------------------
\* Step 4 of process together with the traversal it awaits
\* (src/core/Agent.ts:138-145, 287-299)
\* ---------------------------------------------------------------------
\* options.maxDependencyDepth: none, or a depth of the caller's range.
DiscoveryDepthOptions == {Undefined} \cup {Some(d) : d \in 0..MaxDepthArg}

\* `const maxDepth = options?.maxDependencyDepth || 2`, then the call of
\* DependencyDiscoverer.discoverDependencies(targetFile, plugin, root,
\* maxDepth) up to its loop.
ProcessDiscover ==
  /\ apc = "discover"
  /\ \E opt \in DiscoveryDepthOptions :
       /\ run' = [run EXCEPT !.maxDependencyDepth = opt,
                             !.maxDepth = DepthOrDefault(opt)]
       /\ maxDepth' = DepthOrDefault(opt)
  /\ queue' = <<[path |-> RootPath, depth |-> 0]>>
  /\ discovered' = {}
  /\ files' = <<>>
  /\ imports' = [p \in Paths |-> <<>>]
  /\ cur' = [path |-> RootPath, depth |-> 0]
  /\ batchStart' = 0
  /\ parseCount' = [p \in Paths |-> 0]
  /\ parseFailed' = FALSE
  /\ parseResults' = <<>>
  /\ inFlight' = 0
  /\ tpc' = "loop"
  /\ apc' = "discovering"
  /\ UNCHANGED <<hasErrorListener, llmCache, llmStoredAt>>
  /\ UNCHANGED <<llmVars, cacheVars, gateVars, chunkVars, batchVars>>

\* The traversal has returned its files: `dependencies` of process.
ProcessDiscovered ==
  /\ apc = "discovering"
  /\ tpc = "done"
  /\ apc' = "step5"
  /\ UNCHANGED <<run, hasErrorListener, llmCache, llmStoredAt>>
  /\ UNCHANGED notAgent

DiscoveryNext ==
  \/ Process
  \/ SelectPlugin
  \/ ReadFile
  \/ ProcessDiscover
  \/ Shift
  \/ StartBatch
  \/ ParseSettled
  \/ ProcessBatch
  \/ ReturnFiles
  \/ ProcessDiscovered

\* =====================================================================
\* LargeCodebaseHandler.chunkFile (src/analysis/LargeCodebaseHandler.ts:31-152)
\* =====================================================================
MAX_CHUNK_SIZE == 1000
sampleSize == 200

\* The files given to chunkFile: the number of lines of the text
\* (content.split('\n').length, at least 1), the functions and classes the
\* parser found, each with its line span, and whether the text contains
\* 'export const' and '['.
LineCounts ==
  {1, 2, 199, 200, 201, 399, 400, 401, 999, 1000, 1001, 1999, 2000, 2001, 3000}

\* n declarations of two lines each, from the top of the file
Spans(n, prefix) ==
  [k \in 1..n |-> [name |-> prefix \o ToString(k),
                   lineStart |-> 2 * k - 1, lineEnd |-> 2 * k]]

ChunkInputs ==
  {f \in [totalLines : LineCounts, functions : {Spans(n, "f") : n \in {0, 1, 4, 5}},
          classes : {Spans(n, "C") : n \in {0, 1}},
          hasExportConst : BOOLEAN, hasBracket : BOOLEAN] :
     2 * Len(f.functions) <= f.totalLines /\ 2 * Len(f.classes) <= f.totalLines}

NoChunkInput ==
  [totalLines |-> 1, functions |-> <<>>, classes |-> <<>>,
   hasExportConst |-> FALSE, hasBracket |-> FALSE]

Max(a, b) == IF a >= b THEN a ELSE b

\* Array.prototype.slice(begin, end) on an array of total lines, as the
\* 1-based numbers [from, to] of the lines it keeps (from > to: none). A
\* negative index counts from the end, and both are clamped to the array.
SliceIndex(i, total) == IF i < 0 THEN Max(total + i, 0) ELSE Min(i, total)
Slice(begin, end, total) ==
  [from |-> SliceIndex(begin, total) + 1, to |-> SliceIndex(end, total)]

Chunk(startLine, endLine, text, type, name) ==
  [startLine |-> startLine, endLine |-> endLine, text |-> text,
   type |-> type, name |-> name]

\* isDataHeavy
isDataHeavy(file) ==
  LET hasLargeArray == file.hasExportConst /\ file.hasBracket
      functionCount == Len(file.functions)
      classCount == Len(file.classes)
  IN hasLargeArray /\ functionCount < 5 /\ classCount = 0

\* sampleDataFile
sampleDataFile(file) ==
  LET totalLines == file.totalLines
      header == <<Chunk(1, Min(sampleSize, totalLines),
                        Slice(0, sampleSize, totalLines), "data", "header")>>
      middleStart == (totalLines \div 2) - (sampleSize \div 2)
      middle == IF totalLines > sampleSize * 2
                THEN <<Chunk(middleStart, middleStart + sampleSize,
                             Slice(middleStart, middleStart + sampleSize, totalLines),
                             "data", "middle")>>
                ELSE <<>>
      footer == IF totalLines > sampleSize
                THEN <<Chunk(Max(1, totalLines - sampleSize), totalLines,
                             Slice(-sampleSize, totalLines, totalLines),
                             "data", "footer")>>
                ELSE <<>>
  IN header \o middle \o footer

\* chunkByFunctions
chunkByFunctions(file) ==
  [k \in 1..Len(file.functions) |->
     LET func == file.functions[k] IN
     Chunk(func.lineStart, func.lineEnd,
           Slice(func.lineStart - 1, func.lineEnd, file.totalLines),
           "function", func.name)]

\* chunkByClasses
chunkByClasses(file) ==
  [k \in 1..Len(file.classes) |->
     LET cls == file.classes[k] IN
     Chunk(cls.lineStart, cls.lineEnd,
           Slice(cls.lineStart - 1, cls.lineEnd, file.totalLines),
           "class", cls.name)]

\* mutant: the end of the window is not clamped to the last line
WindowEnd_Unclamped(i, totalLines) == i + MAX_CHUNK_SIZE
\* `endLine: Math.min(i + chunkSize, lines.length)`
WindowEnd(i, totalLines) == Min(i + MAX_CHUNK_SIZE, totalLines)

\* chunkByLines: `for (let i = 0; i < lines.length; i += chunkSize)`
RECURSIVE chunkByLinesFrom(_, _)
chunkByLinesFrom(i, totalLines) ==
  IF i < totalLines
  THEN <<Chunk(i + 1, WindowEnd(i, totalLines),
               Slice(i, i + MAX_CHUNK_SIZE, totalLines), "other", "")>>
       \o chunkByLinesFrom(i + MAX_CHUNK_SIZE, totalLines)
  ELSE <<>>

chunkByLines(totalLines) == chunkByLinesFrom(0, totalLines)

\* mutant: the function boundaries are tried before the data sampling
chunkFile_FunctionsFirst(file) ==
  IF Len(file.functions) > 0 THEN chunkByFunctions(file)
  ELSE IF isDataHeavy(file) THEN sampleDataFile(file)
  ELSE IF Len(file.classes) > 0 THEN chunkByClasses(file)
  ELSE chunkByLines(file.totalLines)
\* chunkFile
chunkFile(file) ==
  IF isDataHeavy(file) THEN sampleDataFile(file)
  ELSE IF Len(file.functions) > 0 THEN chunkByFunctions(file)
  ELSE IF Len(file.classes) > 0 THEN chunkByClasses(file)
  ELSE chunkByLines(file.totalLines)

ChunkFile ==
  /\ \E file \in ChunkInputs :
       /\ chunkInput' = file
       /\ chunks' = Some(chunkFile(file))
  /\ UNCHANGED notChunk

ChunkNext == ChunkFile

\* =====================================================================
\* POST /api/batch-analyze (src/unnamed/part_019:55-77): the process
\* calls of one agent running together
\* =====================================================================
\* A process call of the batch that has not started; response is what its
\* remote completion call settled with.
IdleProc ==
  [pc |-> "idle", path |-> 0, costLimit |-> Undefined, response |-> Undefined]

\* The target of a call as step 3 has read it.
BatchFile(p) == [id |-> 0, path |-> p, from |-> disk[p]]

\* mutant: the ledger is set to the cost of the call
AddCost_Overwrite(total, actualCost) == actualCost
\* `this.totalCost += actualCost;`
AddCost(total, actualCost) == total + actualCost

\* `new CodeReadingAgent(...)`, then `filePaths.map(path =>
\* agent.process(path, config?.options))`: every call is started with the
\* same options and runs steps 1 to 5, which touch neither the ledger nor
\* the response cache, up to understandCode.
BatchAnalyze ==
  /\ \A c \in Callers : procs[c].pc = "idle"
  /\ \E filePaths \in [Callers -> CachePaths], options \in AgentCostLimits :
       procs' = [c \in Callers |->
          [pc |-> "lookup", path |-> filePaths[c], costLimit |-> options,
           response |-> Undefined]]
  /\ UNCHANGED readers
  /\ UNCHANGED <<travVars, llmVars, cacheVars, gateVars, agentVars, chunkVars>>

\* Agent.understandCode up to `await this.cache.getLLMResponse(cacheKey)`
\* and the test of its answer.
BatchLookup(c) ==
  /\ procs[c].pc = "lookup"
  /\ LET cached == getLLMResponse(llmCache, hashContext(BatchFile(procs[c].path)))
     IN procs' = [procs EXCEPT ![c].pc = IF cached # Undefined THEN "done" ELSE "call"]
  /\ UNCHANGED readers
  /\ UNCHANGED <<travVars, llmVars, cacheVars, gateVars, agentVars, chunkVars>>

\* llmService.understandCode up to its await: the check, then the remote
\* call or the cost limit error, which fails the process call.
BatchCall(c) ==
  /\ procs[c].pc = "call"
  /\ remoteCalls < MaxRemoteCalls
  /\ LET call == UnderstandCodeStart(PromptLength(BatchFile(procs[c].path)),
                                     procs[c].costLimit)
     IN /\ llm' = [llm EXCEPT ![c] = call]
        /\ IF call.pc = "raised"
           THEN /\ procs' = [procs EXCEPT ![c].pc = "failed"]
                /\ UNCHANGED remoteCalls
           ELSE /\ procs' = [procs EXCEPT ![c].pc = "awaiting"]
                /\ remoteCalls' = remoteCalls + 1
  /\ UNCHANGED <<totalCost, costLimit, readers>>
  /\ UNCHANGED <<travVars, cacheVars, gateVars, agentVars, chunkVars>>

\* The remote call of c settles and llmService.understandCode runs to its
\* end: the charge, then the understanding, the fallback or the error.
BatchSettle(c) ==
  /\ procs[c].pc = "awaiting"
  /\ \E o \in AgentOutcomes :
       LET call == UnderstandCodeFinish(llm[c], o) IN
       /\ totalCost' = AddCost(totalCost, UnderstandCodeCharge(o))
       /\ llm' = [llm EXCEPT ![c] = call]
       /\ procs' = [procs EXCEPT ![c].response = Some(o),
                                 ![c].pc = IF call.pc = "raised" THEN "failed"
                                           ELSE "store"]
  /\ UNCHANGED <<costLimit, remoteCalls, readers>>
  /\ UNCHANGED <<travVars, cacheVars, gateVars, agentVars, chunkVars>>

\* Agent.understandCode after the await of the client: the value returned
\* is stored in the response cache and returned.
BatchStore(c) ==
  /\ procs[c].pc = "store"
  /\ LET cacheKey == hashContext(BatchFile(procs[c].path)) IN
     /\ llmCache' = setLLMResponse(llmCache, cacheKey, Stringify(llm[c].result[1]))
     /\ llmStoredAt' = setLLMResponse(llmStoredAt, cacheKey, now)
  /\ procs' = [procs EXCEPT ![c].pc = "done"]
  /\ UNCHANGED <<hasErrorListener, apc, run, readers>>
  /\ UNCHANGED <<travVars, llmVars, cacheVars, gateVars, chunkVars>>

BatchNext ==
  \/ BatchAnalyze
  \/ \E c \in Callers : BatchLookup(c)
  \/ \E c \in Callers : BatchCall(c)
  \/ \E c \in Callers : BatchSettle(c)
  \/ \E c \in Callers : BatchStore(c)

\* ---- readFile (src/core/Agent.ts:272-285) of calls running together,
\* ---- with its awaits: getParsedFile, plugin.parseFile, setParsedFile
\* cached is the entry getParsedFile took from the map, file what readFile
\* returned.
IdleReader == [pc |-> "idle", path |-> 0, cached |-> <<>>, file |-> <<>>]

\* readFile is called; getParsedFile runs up to `await this.hashFile`:
\* `const cached = this.fileCache.get(filePath)`.
ReadFileGet(c) ==
  /\ readers[c].pc \in {"idle", "hit", "returned", "threw"}
  /\ \E p \in CachePaths :
       readers' = [readers EXCEPT ![c] =
          [pc |-> IF fileCache[p] = <<>> THEN "parse" ELSE "hashing",
           path |-> p, cached |-> fileCache[p], file |-> <<>>]]
  /\ UNCHANGED procs
  /\ UNCHANGED <<travVars, llmVars, cacheVars, gateVars, agentVars, chunkVars>>

\* getParsedFile after its await: the file is hashed as it is now; the
\* content of the entry taken is returned when the hashes agree, otherwise
\* `this.fileCache.delete(filePath)` and null.
ReadFileHashed(c) ==
  /\ readers[c].pc = "hashing"
  /\ LET p == readers[c].path
         currentHash == hashFile(disk[p])
     IN IF readers[c].cached[1].hash = currentHash
        THEN /\ readers' = [readers EXCEPT ![c].pc = "hit",
                               ![c].file = <<readers[c].cached[1].content>>]
             /\ UNCHANGED fileCache
        ELSE /\ readers' = [readers EXCEPT ![c].pc = "parse"]
             /\ fileCache' = [fileCache EXCEPT ![p] = <<>>]
  /\ UNCHANGED <<disk, parsedObjs, lastOp, getResult, now, procs>>
  /\ UNCHANGED <<travVars, llmVars, gateVars, agentVars, chunkVars>>

\* `await plugin.parseFile(filePath)`: the file as it is now is parsed, or
\* the call throws.
ReadFileParse(c) ==
  /\ readers[c].pc = "parse"
  /\ LET p == readers[c].path IN
     IF disk[p] = Unreadable
     THEN /\ readers' = [readers EXCEPT ![c].pc = "threw"]
          /\ UNCHANGED parsedObjs
     ELSE /\ parsedObjs < MaxParses
          /\ readers' = [readers EXCEPT ![c].pc = "put",
                ![c].file = <<[id |-> parsedObjs + 1, path |-> p, from |-> disk[p]]>>]
          /\ parsedObjs' = parsedObjs + 1
  /\ UNCHANGED <<disk, fileCache, lastOp, getResult, now, procs>>
  /\ UNCHANGED <<travVars, llmVars, gateVars, agentVars, chunkVars>>

\* `await this.cache.setParsedFile(filePath, file)`: the file is hashed as
\* it is now and the entry set; readFile returns the file.
ReadFilePut(c) ==
  /\ readers[c].pc = "put"
  /\ LET p == readers[c].path IN
     fileCache' = [fileCache EXCEPT ![p] =
        <<[content |-> readers[c].file[1], hash |-> hashFile(disk[p]),
           timestamp |-> now]>>]
  /\ readers' = [readers EXCEPT ![c].pc = "returned"]
  /\ UNCHANGED <<disk, parsedObjs, lastOp, getResult, now, procs>>
  /\ UNCHANGED <<travVars, llmVars, gateVars, agentVars, chunkVars>>

ReadersNext ==
  \/ \E c \in Callers : ReadFileGet(c)
  \/ \E c \in Callers : ReadFileHashed(c)
  \/ \E c \in Callers : ReadFileParse(c)
  \/ \E c \in Callers : ReadFilePut(c)
  \/ \E p \in CachePaths : WriteFile(p)

\* =====================================================================
\* Specifications.  Init is the state after construction of the agent's
\* components; each specification runs one component.
\* =====================================================================
Init ==
  /\ imports = [p \in Paths |-> <<>>]
  /\ maxDepth = 0
  /\ queue = <<>>
  /\ discovered = {}
  /\ files = <<>>
  /\ tpc = "idle"
  /\ cur = [path |-> RootPath, depth |-> 0]
  /\ batchStart = 0
  /\ parseCount = [p \in Paths |-> 0]
  /\ parseFailed = FALSE
  /\ parseResults = <<>>
  /\ inFlight = 0
  /\ totalCost = 0
  /\ costLimit = DefaultCostLimit
  /\ llm = [c \in Callers |-> IdleCall]
  /\ remoteCalls = 0
  /\ disk = [p \in CachePaths |-> 1]
  /\ fileCache = [p \in CachePaths |-> <<>>]
  /\ parsedObjs = 0
  /\ lastOp = [op |-> "none", path |-> 1, branch |-> "none"]
  /\ getResult = <<>>
  /\ now = 0
  /\ rules = DefaultRules
  /\ gatePkg = NoPackage
  /\ gateResult = <<>>
  /\ hasErrorListener = FALSE
  /\ apc = "idle"
  /\ run = FreshRun(TargetPath)
  /\ llmCache = <<>>
  /\ llmStoredAt = <<>>
  /\ chunkInput = NoChunkInput
  /\ chunks = Undefined
  /\ procs = [c \in Callers |-> IdleProc]
  /\ readers = [c \in Callers |-> IdleReader]

SpecTraversal == Init /\ [][TravNext]_vars

\* The traversal is one async function on the event loop: a step that can run
\* runs (the loop body is synchronous up to its awaits), and a parseFile call
\* that was started settles.
SpecTraversalFair ==
  /\ Init
  /\ [][TravNext]_vars
  /\ WF_vars(Shift)
  /\ WF_vars(StartBatch)
  /\ WF_vars(ParseSettled)
  /\ WF_vars(ProcessBatch)
  /\ WF_vars(ReturnFiles)

SpecLLM == Init /\ [][LLMNext]_vars

SpecBatch == Init /\ [][BatchNext]_vars

SpecReaders == Init /\ [][ReadersNext]_vars

SpecCache == Init /\ [][CacheNext]_vars

SpecGate == Init /\ [][GateNext]_vars

SpecAgent == Init /\ [][AgentNext]_vars

SpecChunk == Init /\ [][ChunkNext]_vars

SpecDiscovery == Init /\ [][DiscoveryNext]_vars

\* =====================================================================
\* Claims
\* =====================================================================
\* ---- import distance in the graph the plugin reports
RECURSIVE Within(_)
Within(k) ==
  IF k = 0 THEN {RootPath}
  ELSE LET prev == Within(k - 1) IN
       prev \cup UNION {{imports[p][i] : i \in 1..Len(imports[p])} : p \in prev}

Range(s) == {s[i] : i \in 1..Len(s)}
NoDuplicates(s) == \A i, j \in 1..Len(s) : i # j => s[i] # s[j]

\* C1: every unit of the result is reachable from the root by at most
\* maxDepth import edges, no path is listed twice, and the root is never
\* listed (cycles back to the root included).
C1_DepthBound ==
  /\ \A i \in 1..Len(files) : files[i] \in Within(maxDepth) /\ files[i] # RootPath
  /\ NoDuplicates(files)

\* C1 witness: a finished run on a graph with a cycle back to the root, in
\* which the root was queued again and a unit was recorded.
C1_Witness ==
  /\ tpc = "done"
  /\ Len(files) >= 1
  /\ \E p \in Range(files) : RootPath \in Range(imports[p])
  /\ RootPath \in Range(imports[RootPath])

\* C2: when every dependency parses, the result is exactly the set of units
\* whose import distance from the root is between 1 and maxDepth.
C2_ExactClosure ==
  (tpc = "done" /\ ~parseFailed) =>
     Range(files) = Within(maxDepth) \ {RootPath}

\* C3: within one run plugin.parseFile is called at most once per path.
C3_ParsedOnce == \A p \in Paths : parseCount[p] <= 1

\* C4: an understandCode call whose check finds totalCost + estimate above
\* the limit raises the cost-limit error, issues no remote call and leaves
\* the ledger as it was.
C4_CostRefusal ==
  [][\A c \in Callers :
       ( /\ llm[c].pc # "awaiting"
         /\ llm'[c] # llm[c]
         /\ llm'[c].op = "understand"
         /\ totalCost + llm'[c].est > llm'[c].limit )
       => /\ llm'[c].pc = "raised"
          /\ llm'[c].err = UnderstandCostMsg
          /\ remoteCalls' = remoteCalls
          /\ totalCost' = totalCost]_vars

\* C4 witness: a call refused by the check after earlier calls had spent
\* money, although its estimate alone was under the limit.
C4_Witness ==
  \E c \in Callers :
     /\ llm[c].pc = "raised" /\ llm[c].op = "understand" /\ llm[c].origin = "check"
     /\ llm[c].est <= llm[c].limit
     /\ totalCost > 0 /\ remoteCalls > 0

\* C5: no step of a completion call (understandCode, generateTestCode),
\* whether it succeeds, falls back or is refused, lowers the ledger.
C5_LedgerMonotone == [][llm' # llm => totalCost' >= totalCost]_vars

\* C5 witness: money has been spent, one call was refused for cost and
\* another one ended in the fallback.
C5_Witness ==
  /\ totalCost > 0
  /\ \E c, d \in Callers :
       /\ llm[c].pc = "raised" /\ llm[c].origin = "check"
       /\ llm[d].pc = "returned" /\ llm[d].origin = "remote"

\* C7: an error of the remote call that is no cost-limit error is not
\* propagated: understandCode returns the fallback (confidence 0.1, empty
\* edge-case, error-condition and scenario lists); only a cost-limit error
\* is raised.
IsCostLimitError(call) ==
  call.origin = "check" \/ Includes(call.err, "cost limit")

C7_FallbackOnError ==
  \A c \in Callers :
     (llm[c].op = "understand" /\ llm[c].err # "" /\ llm[c].pc # "awaiting") =>
        IF IsCostLimitError(llm[c])
        THEN llm[c].pc = "raised"
        ELSE /\ llm[c].pc = "returned"
             /\ llm[c].result # Undefined
             /\ llm[c].result[1].confidence = 1
             /\ llm[c].result[1].edgeCases = <<>>
             /\ llm[c].result[1].errorConditions = <<>>
             /\ llm[c].result[1].testScenarios = <<>>

\* C7 witness: the answer could not be parsed as JSON after its cost had
\* been added, and the fallback was returned.
C7_Witness ==
  \E c \in Callers :
     /\ llm[c].op = "understand" /\ llm[c].pc = "returned"
     /\ llm[c].err = JsonSyntaxMsg
     /\ llm[c].result = Some(fallbackUnderstanding)
     /\ totalCost > 0

\* C6: a getParsedFile that finds the file's fingerprint different from the
\* one stored at put time is a miss and removes the entry, so that the next
\* get without a new put misses too; with the fingerprint unchanged it is a
\* hit and returns the very object that was put.
C6_CacheSoundness ==
  [][\A p \in CachePaths :
       (lastOp'.op = "get" /\ lastOp'.path = p) =>
          IF fileCache[p] = <<>>
          THEN getResult' = <<>> /\ fileCache'[p] = <<>>
          ELSE IF hashFile(disk[p]) # fileCache[p][1].hash
               THEN getResult' = <<>> /\ fileCache'[p] = <<>>
               ELSE /\ getResult' = <<fileCache[p][1].content>>
                    /\ fileCache'[p] = fileCache[p]]_vars

\* C6 witness: a get has just dropped an entry whose file had changed
\* since the put.
C6_Witness ==
  /\ lastOp.op = "get" /\ lastOp.branch = "stale"
  /\ getResult = <<>>
  /\ fileCache[lastOp.path] = <<>>
  /\ parsedObjs >= 1

\* C10: the aggregate passed flag is false exactly when a rule of severity
\* error fails its comparison, and turning a failing rule from error into
\* warning, the metrics unchanged, leaves every rule's own passed value as
\* it was.
Satisfies(rule, value) ==
  CASE rule.operator = "gt" -> value > rule.threshold
    [] rule.operator = "lt" -> value < rule.threshold
    [] rule.operator = "eq" -> value = rule.threshold
    [] rule.operator = "gte" -> value >= rule.threshold
    [] rule.operator = "lte" -> value <= rule.threshold

AsWarning(rs, i) == [rs EXCEPT ![i].severity = "warning"]

C10_GateAggregation ==
  gateResult # <<>> =>
    LET r == gateResult[1] IN
    /\ Len(r.rules) = Len(rules)
    /\ (r.passed = FALSE) <=>
          \E i \in 1..Len(rules) :
             /\ rules[i].severity = "error"
             /\ ~Satisfies(rules[i], getMetricValue(gatePkg, rules[i].metric))
    /\ \A i \in 1..Len(rules) :
          (rules[i].severity = "error" /\ ~r.rules[i].passed) =>
             LET t == evaluate(AsWarning(rules, i), gatePkg) IN
             /\ \A j \in 1..Len(rules) : t.rules[j].passed = r.rules[j].passed
             /\ t.passed = (\A j \in 1..Len(rules) :
                   (j # i /\ rules[j].severity = "error") => r.rules[j].passed)

\* C10 witness: the gate failed on a failing error rule that was added at
\* run time, while a warning rule failed too.
C10_Witness ==
  /\ gateResult # <<>>
  /\ gateResult[1].passed = FALSE
  /\ \E i, j \in 1..Len(rules) :
       /\ rules[i].id = "custom" /\ rules[i].severity = "error"
       /\ ~gateResult[1].rules[i].passed
       /\ rules[j].severity = "warning" /\ ~gateResult[1].rules[j].passed

\* C8: a process call that fails returns no report and throws the message of
\* its class, "File not found ..." for a missing target and "Cost limit
\* exceeded. Try ..." for a refusal of the completion client on cost, with
\* or without a listener on the 'error' event.
C8_ClassifiedFailure ==
  apc = "failed" =>
    /\ run.returned = Undefined
    /\ run.cause = "missing" => run.thrown = FileNotFoundMsg(run.target)
    /\ run.cause = "cost" => run.thrown = CostLimitMsg

\* C9 as stated: a process call whose security scan threw returns a report
\* without a security section.
C9_SecurityAbsent ==
  (apc = "returned" /\ "Security scan failed" \in run.warnings) =>
    /\ run.returned # Undefined
    /\ run.returned[1].security = Undefined

\* C9: a process call whose security scan threw returns a report, the
\* failure logged; the security section has no sca result, and is absent
\* exactly when the SAST analysis gave no result either; the analysis, the
\* understanding, the quality gate result and the fixes are in the report.
C9_ScanFailureTolerated ==
  [][(apc = "fixes" /\ apc' = "returned"
        /\ "Security scan failed" \in run.warnings) =>
       /\ "Security scan failed" \in run'.warnings
       /\ run'.thrown = ""
       /\ run'.returned # Undefined
       /\ LET pkg == run'.returned[1] IN
          /\ pkg.security =
               IF run.sastResult = Undefined THEN Undefined
               ELSE Some([sca |-> Undefined, sast |-> run.sastResult])
          /\ pkg.target = run.targetFile[1]
          /\ pkg.analysis = run.analysis[1]
          /\ pkg.understanding = run.understanding[1]
          /\ pkg.qualityGate # Undefined
          /\ pkg.fixes # Undefined]_vars

\* C9 witness: a report returned after the scan threw, with a security
\* section that holds the SAST result only.
C9_Witness ==
  /\ apc = "returned"
  /\ "Security scan failed" \in run.warnings
  /\ run.returned # Undefined
  /\ run.returned[1].security # Undefined
  /\ run.returned[1].security[1].sca = Undefined
  /\ run.returned[1].security[1].sast # Undefined

\* C11: the chunks of the fixed-window fallback start at line 1, are each
\* at most 1000 lines long, each begin on the line after the previous one
\* ends, and end at the last line; every line of the input lies in exactly
\* one of them.
ChunkedByWindow ==
  /\ chunks # Undefined
  /\ ~isDataHeavy(chunkInput)
  /\ chunkInput.functions = <<>>
  /\ chunkInput.classes = <<>>

C11_WindowCoverage ==
  ChunkedByWindow =>
    LET cs == chunks[1]
        n == chunkInput.totalLines
    IN /\ Len(cs) >= 1
       /\ cs[1].startLine = 1
       /\ cs[Len(cs)].endLine = n
       /\ \A k \in 1..Len(cs) :
            /\ cs[k].type = "other"
            /\ cs[k].startLine <= cs[k].endLine
            /\ cs[k].endLine - cs[k].startLine + 1 <= 1000
       /\ \A k \in 1..(Len(cs) - 1) : cs[k + 1].startLine = cs[k].endLine + 1
       /\ \A l \in 1..n :
            Cardinality({k \in 1..Len(cs) :
                           cs[k].startLine <= l /\ l <= cs[k].endLine}) = 1

\* C11 witness: a file of 2001 lines cut into three windows, the last of
\* one line.
C11_Witness ==
  /\ ChunkedByWindow
  /\ chunkInput.totalLines = 2001
  /\ Len(chunks[1]) = 3
  /\ chunks[1][3].startLine = 2001

\* C12: chunkFile applies one policy, the first that matches of data
\* sampling, per function, per class, fixed windows: the chunks returned
\* all have the kind of that policy; a file with fewer than 5 functions, no
\* class and exported array data is sampled even when it has functions; a
\* file with functions is never chunked by class or by window.
KindsOf(cs) == {cs[k].type : k \in 1..Len(cs)}

C12_OnePolicy ==
  chunks # Undefined =>
    LET cs == chunks[1]
        f == chunkInput
        dataHeavy == /\ f.hasExportConst /\ f.hasBracket
                     /\ Len(f.functions) < 5 /\ Len(f.classes) = 0
    IN /\ Len(cs) >= 1
       /\ KindsOf(cs) =
            IF dataHeavy THEN {"data"}
            ELSE IF f.functions # <<>> THEN {"function"}
            ELSE IF f.classes # <<>> THEN {"class"}
            ELSE {"other"}
       /\ (~dataHeavy /\ f.functions # <<>>) =>
            /\ Len(cs) = Len(f.functions)
            /\ \A k \in 1..Len(cs) :
                 /\ cs[k].name = f.functions[k].name
                 /\ cs[k].startLine = f.functions[k].lineStart
                 /\ cs[k].endLine = f.functions[k].lineEnd
       /\ (~dataHeavy /\ f.functions = <<>> /\ f.classes # <<>>) =>
            /\ Len(cs) = Len(f.classes)
            /\ \A k \in 1..Len(cs) :
                 /\ cs[k].name = f.classes[k].name
                 /\ cs[k].startLine = f.classes[k].lineStart
                 /\ cs[k].endLine = f.classes[k].lineEnd

\* C12 witness: a file with four functions and exported array data is
\* sampled, and a file with functions and a class is chunked by function.
C12_Witness ==
  /\ chunks # Undefined
  /\ \/ /\ Len(chunkInput.functions) = 4
        /\ chunkInput.hasExportConst /\ chunkInput.hasBracket
        /\ chunkInput.classes = <<>>
        /\ KindsOf(chunks[1]) = {"data"}
     \/ /\ Len(chunkInput.functions) = 5
        /\ Len(chunkInput.classes) = 1
        /\ chunkInput.hasExportConst /\ chunkInput.hasBracket
        /\ KindsOf(chunks[1]) = {"function"}

\* C13: data sampling with N = 200 returns at most three chunks of kind
\* data: a header spanning the first N lines, a middle chunk spanning N
\* lines around the midpoint that is present exactly when the file has more
\* than 2N lines, and a footer spanning the last N lines; a file of 2000
\* lines with no function, no class and exported array data is sampled.
SpanLength(c) == c.endLine - c.startLine + 1

NamedChunks(cs, n) == SelectSeq(cs, LAMBDA c : c.name = n)

C13_SampleSpans ==
  (chunks # Undefined /\ KindsOf(chunks[1]) = {"data"}) =>
    LET cs == chunks[1]
        total == chunkInput.totalLines
        header == NamedChunks(cs, "header")
        middle == NamedChunks(cs, "middle")
        footer == NamedChunks(cs, "footer")
    IN /\ Len(cs) <= 3
       /\ Len(header) = 1 /\ cs[1] = header[1]
       /\ header[1].startLine = 1
       /\ header[1].endLine = Min(sampleSize, total)
       /\ Len(middle) = (IF total > 2 * sampleSize THEN 1 ELSE 0)
       /\ \A k \in 1..Len(middle) :
            /\ SpanLength(middle[k]) = sampleSize
            /\ middle[k].startLine <= total \div 2
            /\ middle[k].endLine > total \div 2
       /\ Len(footer) <= 1
       /\ \A k \in 1..Len(footer) :
            /\ footer[k].endLine = total
            /\ SpanLength(footer[k]) = sampleSize
       /\ (total = 2000 /\ chunkInput.functions = <<>>
             /\ chunkInput.classes = <<>>) => Len(cs) = 3

\* The step of process that hands the context to the client: the cache had
\* no response for it, and the pre-call check has refused the call or the
\* remote call has been issued.
UnderstandChecked ==
  /\ apc = "understand"
  /\ apc' \in {"awaiting", "failed"}

\* The scenario of C14: nothing spent so far, a prompt of 40,000
\* characters, a per-call ceiling of $0.01.
EstimateScenario ==
  /\ UnderstandChecked
  /\ totalCost = 0
  /\ PromptLength(run.targetFile[1]) = 40000
  /\ run'.costLimit = Some(UnitsPerCent)

\* C14 as stated: with nothing spent, a context of 40,000 characters
\* checked against a ceiling of $0.01 makes process fail with the
\* cost-limit error, with no remote call and no change of the ledger.
C14_ScenarioRefused ==
  [][EstimateScenario =>
       /\ apc' = "failed"
       /\ run'.cause = "cost"
       /\ Includes(run'.raised, "Cost limit exceeded")
       /\ remoteCalls' = remoteCalls
       /\ totalCost' = totalCost]_vars

\* C14 amended: 40,000 characters are estimated at $0.007 (10,000 tokens,
\* 80% at $0.0005/1k and 20% at $0.0015/1k), which does not exceed $0.01:
\* the check passes and the remote call is issued, the ledger unchanged by
\* the check.  Against a ceiling of $0.0001 the same context is refused
\* with the cost-limit error, no remote call and no change of the ledger.
C14_ScenarioIssued ==
  [][/\ EstimateScenario =>
          /\ run'.call.est = (7 * UnitsPerCent) \div 10
          /\ run'.call.limit = UnitsPerCent
          /\ apc' = "awaiting"
          /\ remoteCalls' = remoteCalls + 1
          /\ totalCost' = totalCost
     /\ (/\ UnderstandChecked
         /\ PromptLength(run.targetFile[1]) = 40000
         /\ run'.costLimit = Some(20000)) =>
          /\ apc' = "failed"
          /\ run'.cause = "cost"
          /\ Includes(run'.raised, "Cost limit exceeded")
          /\ remoteCalls' = remoteCalls
          /\ totalCost' = totalCost]_vars

\* C14 witness: the call of the scenario is awaiting its completion.
C14_Witness ==
  /\ apc = "awaiting"
  /\ totalCost = 0
  /\ remoteCalls = 1
  /\ run.costLimit = Some(UnitsPerCent)
  /\ run.call.est = (7 * UnitsPerCent) \div 10
  /\ PromptLength(run.targetFile[1]) = 40000

\* C15: when options.costLimit is supplied, the pre-call check compares
\* with that ceiling, for every supplied value including 0; the ceiling of
\* the instance is used only when none is supplied.
C15_PerCallCeiling ==
  [][UnderstandChecked =>
       LET limit == IF run'.costLimit # Undefined
                    THEN run'.costLimit[1] ELSE costLimit
       IN /\ run'.call.limit = limit
          /\ (apc' = "failed") <=> (totalCost + run'.call.est > limit)]_vars

\* C16: process runs the dependency discovery with exactly the depth the
\* caller passed, for every value of the caller's range from 0 on, and with
\* the default 2 only when none was passed; with maxDependencyDepth = 0 the
\* list of dependencies is empty.
C16_CallerDepth ==
  apc \in {"discovering", "step5"} =>
    /\ maxDepth = IF run.maxDependencyDepth = Undefined
                  THEN 2 ELSE run.maxDependencyDepth[1]
    /\ (apc = "step5" /\ run.maxDependencyDepth = Some(0)) => files = <<>>

\* The deps of the batch in hand.
BatchInHand ==
  LET deps == imports[cur.path]
  IN SubSeq(deps, batchStart + 1, Min(batchStart + batchSize, Len(deps)))

\* The queue entries of the deps of batch whose parseFile call returned.
ParsedOf(batch, res, depth) ==
  LET idx == SelectSeq([k \in 1..Len(batch) |-> k], LAMBDA k : res[k] = "parsed")
  IN [j \in 1..Len(idx) |-> [path |-> batch[idx[j]], depth |-> depth]]

\* C17: a parseFile call that throws during the traversal is swallowed: its
\* dep is dropped, every dep of the same batch whose call returned is
\* queued at depth + 1, in order, the next batch of the file is still
\* processed, and the traversal goes on to return its files.
C17_ParseFailureSwallowed ==
  [][(tpc = "parsing" /\ tpc' # "parsing") =>
       LET batch == BatchInHand
           res == parseResults'
       IN /\ Len(res) = Len(batch)
          /\ queue' = queue \o ParsedOf(batch, res, cur.depth + 1)
          /\ batchStart' = batchStart + batchSize
          /\ tpc' = IF batchStart' < Len(imports[cur.path]) THEN "batch" ELSE "loop"
          /\ files' = files
          /\ discovered' = discovered]_vars

\* C17 witness: of a first batch of ten deps four were queued and six
\* dropped after their parse threw, and the second batch of the same file
\* has been processed, one more dep queued and one more dropped.
C17_Witness ==
  /\ tpc = "loop"
  /\ batchStart = 2 * batchSize
  /\ parseFailed
  /\ parseResults = <<"parsed", "threw">>
  /\ Len(queue) = 5

\* The rules of the registry (by position) that the package satisfies or not.
RulesWhere(Test(_)) == Cardinality({i \in 1..Len(rules) : Test(i)})

\* C18: in every result of evaluate, summary.total is the number of
\* registered rules, summary.passed the number of rules that passed,
\* summary.failed the number of failed rules of severity error only,
\* summary.warnings the number of failed rules of severity warning, and so
\* total = passed + failed + warnings.
C18_SummaryTallies ==
  gateResult # <<>> =>
    LET s == gateResult[1].summary
        Holds(i) == Satisfies(rules[i], getMetricValue(gatePkg, rules[i].metric))
        Passes(i) == Holds(i)
        FailsAsError(i) == ~Holds(i) /\ rules[i].severity = "error"
        FailsAsWarning(i) == ~Holds(i) /\ rules[i].severity = "warning"
    IN /\ s.total = Len(rules)
       /\ s.passed = RulesWhere(Passes)
       /\ s.failed = RulesWhere(FailsAsError)
       /\ s.warnings = RulesWhere(FailsAsWarning)
       /\ s.total = s.passed + s.failed + s.warnings

\* C18 witness: a result over five rules, two of them added at run time, in
\* which rules passed, a rule of severity error failed and two rules of
\* severity warning failed.
C18_Witness ==
  /\ gateResult # <<>>
  /\ gateResult[1].summary.total = 5
  /\ gateResult[1].summary.passed >= 1
  /\ gateResult[1].summary.failed >= 1
  /\ gateResult[1].summary.warnings = 2

\* The rules of rs whose id is not id, in the order of rs.
Filtered(rs, id) == SelectSeq(rs, LAMBDA r : r.id # id)

\* C19: the registry is live.  An evaluate reports one result per rule
\* registered at that time, in registration order; addRule appends one rule
\* and alters no other; removeRule(id) removes every rule with that id and
\* leaves the others and their order; removing an unknown id changes nothing.
C19_LiveRegistry ==
  [][/\ gateResult' # <<>> =>
          /\ rules' = rules
          /\ Len(gateResult'[1].rules) = Len(rules)
          /\ \A i \in 1..Len(rules) : gateResult'[1].rules[i].rule = rules[i]
     /\ Len(rules') > Len(rules) =>
          /\ Len(rules') = Len(rules) + 1
          /\ SubSeq(rules', 1, Len(rules)) = rules
     /\ Len(rules') < Len(rules) =>
          \E i \in 1..Len(rules) : rules' = Filtered(rules, rules[i].id)
     /\ Len(rules') = Len(rules) => rules' = rules
     /\ removeRule(rules, "unknown") = rules]_vars

\* C19 witness: after a default rule was removed and two rules were added,
\* an evaluate has reported the four registered rules in their order.
C19_Witness ==
  /\ gateResult # <<>>
  /\ Len(rules) = 4
  /\ rules[1].id = "max-complexity"
  /\ rules[2].id = "no-critical-sast"
  /\ rules[3].id = "custom"
  /\ rules[4].id = "custom"
  /\ rules[3] # rules[4]
  /\ \A i \in 1..4 : gateResult[1].rules[i].rule = rules[i]

\* C20: when the generation of fix suggestions throws, process does not
\* fail: it returns the package it has built with an empty list of fixes,
\* the quality-gate result attached before and every other section as they
\* were.
C20_FixesBestEffort ==
  [][(/\ apc = "fixes"
      /\ apc' # "fixes"
      /\ "Auto-fix generation failed" \in run'.warnings) =>
        /\ apc' = "returned"
        /\ run'.thrown = ""
        /\ run'.raised = ""
        /\ run'.returned = Some([run.qaPackage[1] EXCEPT !.fixes = Some(0)])
        /\ run'.returned[1].qualityGate = Some(evaluate(rules, GateInput(run.qaPackage[1])))]_vars

\* C20 witness: a package returned after the generation of fixes threw, with
\* a failed quality gate and a security section.
C20_Witness ==
  /\ apc = "returned"
  /\ "Auto-fix generation failed" \in run.warnings
  /\ run.returned # Undefined
  /\ run.returned[1].fixes = Some(0)
  /\ run.returned[1].security # Undefined
  /\ run.returned[1].qualityGate[1].passed = FALSE

\* C30: for every chunk chunkFile returns, under any policy, the text is
\* exactly the lines numbered startLine through endLine of the input, so
\* endLine - startLine + 1 is the number of lines of the text.
C30_TextMatchesSpan ==
  chunks # Undefined =>
    \A k \in 1..Len(chunks[1]) :
       LET c == chunks[1][k] IN
       /\ c.text.from = c.startLine
       /\ c.text.to = c.endLine
       /\ c.text.to - c.text.from + 1 = SpanLength(c)

\* What a sweep with maxAge leaves of the parsed files and of the
\* completion responses: the entries whose age is at most maxAge.
SweptFiles(maxAge) ==
  [p \in CachePaths |->
     IF fileCache[p] # <<>> /\ now - fileCache[p][1].timestamp > maxAge
     THEN <<>> ELSE fileCache[p]]

SweptResponses(maxAge) ==
  [k \in {x \in DOMAIN llmCache : now - llmStoredAt[x] <= maxAge} |-> llmCache[k]]

\* C21: cleanup(maxAge) removes the entries older than maxAge and leaves
\* every younger entry as it is, for the parsed files and for the completion
\* responses alike, and does not disturb what a get has returned.
C21_SweepEveryKind ==
  [][(lastOp'.op = "cleanup" /\ (lastOp' # lastOp \/ fileCache' # fileCache)) =>
       \E maxAge \in 0..MaxClock :
          /\ fileCache' = SweptFiles(maxAge)
          /\ llmCache' = SweptResponses(maxAge)
          /\ getResult' = getResult]_vars

\* C25: the deps of a file are parsed in batches of 10: at no time are more
\* than 10 parseFile calls of a run in flight, and the calls of the next
\* batch start only when every call of the batch before has settled.
C25_BatchesOfTen ==
  [][/\ inFlight' <= 10
     /\ inFlight' > inFlight =>
          /\ inFlight = 0
          /\ inFlight' <= Len(BatchInHand)
          /\ Len(BatchInHand) <= 10
     /\ batchStart' # batchStart => inFlight = 0]_vars

\* C25 witness: the ten calls of a first batch are in flight and two deps
\* of the same file wait for the next batch.
C25_Witness ==
  /\ tpc = "parsing"
  /\ inFlight = 10
  /\ batchStart = 0
  /\ Len(imports[cur.path]) = 12

\* C24: discoverDependencies terminates on every finite import graph, cycles
\* and self-imports included, for every max depth: an entry is expanded
\* (recorded, its imports asked for) only for a path not yet in discovered,
\* so each path is expanded at most once, and a call that has entered the
\* loop reaches its return with the queue empty.
C24_Terminates ==
  /\ [][(tpc = "loop" /\ (files' # files \/ imports' # imports \/ tpc' = "batch"))
          => cur'.path \notin discovered]_vars
  /\ (tpc = "loop") ~> (tpc = "done" /\ queue = <<>>)

\* C24 witness: the call has returned on a graph where the root imports
\* itself and another file imports the root.
C24_Witness ==
  /\ tpc = "done"
  /\ \E k \in 1..Len(imports[RootPath]) : imports[RootPath][k] = RootPath
  /\ \E p \in Paths \ {RootPath} :
        /\ p \in discovered
        /\ \E k \in 1..Len(imports[p]) : imports[p][k] = RootPath

C26_CachedUnderstanding ==
  [][/\ (/\ apc = "understand"
         /\ hashContext(run.targetFile[1]) \in DOMAIN llmCache
         /\ apc' # apc)
        => /\ apc' = "build"
           /\ run'.understanding =
                Some(Parse(llmCache[hashContext(run.targetFile[1])]))
           /\ run'.call = IdleCall
           /\ remoteCalls' = remoteCalls
           /\ totalCost' = totalCost
           /\ llmCache' = llmCache
     /\ (apc \in {"understand", "build", "fixes"} /\ run.call = IdleCall
           /\ apc' \notin {"awaiting", "failed"})
        => totalCost' = totalCost]_vars

\* C26 witness: a process call has taken its understanding from the cache,
\* which an earlier, charged call had filled.
C26_Witness ==
  /\ apc = "build"
  /\ run.cached # Undefined
  /\ run.understanding = Some(Parse(run.cached[1]))
  /\ remoteCalls > 0
  /\ totalCost > 0

\* C28: the fallback Understanding that understandCode returns for a failed
\* remote call is not stored in the response cache: the step that returns
\* it leaves the cache as it was, so that a later process call for the same
\* key finds no entry and issues the remote call again.
C28_FallbackNotCached ==
  [][(/\ apc = "awaiting"
      /\ apc' = "build"
      /\ run'.understanding = Some(fallbackUnderstanding))
       => /\ llmCache' = llmCache
          /\ hashContext(run.targetFile[1]) \notin DOMAIN llmCache']_vars

\* The sum of f over the callers in S.
RECURSIVE SumOver(_, _)
SumOver(f, S) ==
  IF S = {} THEN 0
  ELSE LET c == CHOOSE x \in S : TRUE IN f[c] + SumOver(f, S \ {c})

\* What a settled remote call has cost: the price of its usage when the
\* completion came back with a content, nothing when the call failed.
ActualCosts ==
  [c \in Callers |->
     IF procs[c].response # Undefined
        /\ procs[c].response[1].kind \in {"content", "badjson"}
     THEN calculateCost(procs[c].response[1].usage.inTok,
                        procs[c].response[1].usage.outTok)
     ELSE 0]

\* C22: with several process calls of one agent running together no
\* increment of the ledger is lost: at every moment, and so once all calls
\* have settled, totalCost is the sum of the actual costs of the remote
\* calls that have come back with a completion.
C22_LedgerIsSum ==
  totalCost = SumOver(ActualCosts, Callers)

\* C22 witness: every call of the batch has settled, two remote calls were
\* in the batch and both were charged.
C22_Witness ==
  /\ \A c \in Callers : procs[c].pc \in {"done", "failed"}
  /\ Cardinality({c \in Callers : ActualCosts[c] > 0}) >= 2
  /\ totalCost = SumOver(ActualCosts, Callers)

\* The estimates of the remote calls in flight.
InFlightEstimates ==
  [c \in Callers |-> IF procs[c].pc = "awaiting" THEN llm[c].est ELSE 0]

\* C27: totalCost plus the estimates of all remote calls in flight never
\* exceeds the limit the calls were checked against.
C27_InFlightWithinCeiling ==
  \A c \in Callers :
     procs[c].pc = "awaiting" =>
        totalCost + SumOver(InFlightEstimates, Callers) <= llm[c].limit

\* C29: with readFile calls and file writes interleaved, a hit of
\* getParsedFile returns a value parsed from a text whose hash is the hash
\* of the file that get computed, and a get deletes an entry only if the
\* hash stored in that entry differs from the hash of the file as it is.
C29_HitAndDeleteMatchFile ==
  [][\A c \in Callers :
       (readers[c].pc = "hashing" /\ readers'[c].pc # "hashing") =>
          LET p == readers[c].path IN
          /\ readers'[c].pc = "hit" =>
               hashFile(readers'[c].file[1].from) = hashFile(disk[p])
          /\ (fileCache[p] # <<>> /\ fileCache'[p] = <<>>) =>
               fileCache[p][1].hash # hashFile(disk[p])]_vars

====
